---- MODULE Spec2Model ----
(***************************************************************************)
(* Model of magefile.go of get.porter.sh/flux: the mage targets that bring *)
(* the local test environment up and down (EnsureCluster,                  *)
(* CreateKindCluster, DeleteKindCluster, StartDockerRegistry,              *)
(* StopDockerRegistry) together with the part of the outside world they    *)
(* act on through kind, docker, kubectl and flux: the kind cluster         *)
(* "porter", the docker network "kind", the container "registry", the      *)
(* files kind.config and kind.config.yaml and the KUBECONFIG variable of   *)
(* the mage process.                                                       *)
(*                                                                         *)
(* One mage process runs one target.  A target is a straight line of       *)
(* statements; pc is the statement the process is at ("idle" between       *)
(* processes).  Commands built by `must` (StopOnError) stop the build when *)
(* they fail, which is a panic: functions deferred so far run, everything  *)
(* after is skipped.  Commands of the shx package return their error.      *)
(* Strings are sequences of tokens, so that strings.Contains is a real     *)
(* substring test.  Commands that only inspect (kind get kubeconfig,       *)
(* docker inspect) answer from the state of the world; commands that       *)
(* change it can also fail when everything they need is there, which the   *)
(* variable spurious records.                                              *)
(***************************************************************************)
EXTENDS Naturals, Sequences, FiniteSets

\* Number of clusters that can be created in one behaviour.
MaxGen == 2

VARIABLES
    cluster,        \* 0: no kind cluster "porter"; g > 0: the g-th one exists
    gen,            \* number of clusters created so far
    kindNet,        \* the docker network "kind" exists
    registry,       \* container "registry": "absent", "stopped", "running"
    linked,         \* container "registry" is attached to network "kind"
    registryImage,  \* a docker object named "registry" that is no container
    kindConfig,     \* file kind.config: [cred, ns]; cred 0: no credentials
    tmpFile,        \* file kind.config.yaml: "absent", "partial", "rendered"
    env,            \* KUBECONFIG of the mage process
    task,           \* the target the process was started for
    pc,             \* the statement the process is at
    outcome,        \* "none" (running), "ok" (returned), "aborted"
    deferred,       \* os.Remove("kind.config.yaml") is deferred
    issued,         \* the commands run so far, with KUBECONFIG at that time
    lookup,         \* what getClusterConfig returned to this process, if called
    visited,        \* the statements the process went through
    abortedAt,      \* the statement that stopped the build, or "none"
    start,          \* the world when the process started
    spurious,       \* a step failed although what it needs was there
    advisory        \* the ATTENTION! message was printed

vars == <<cluster, gen, kindNet, registry, linked, registryImage, kindConfig,
          tmpFile, env, task, pc, outcome, deferred, issued, lookup, visited,
          abortedAt, start, spurious, advisory>>

world == <<cluster, gen, kindNet, registry, linked, registryImage>>

----------------------------------------------------------------------------
\* Constants of the magefile

kindClusterName == "porter"

kubeconfig == <<"kind.config">>

operatorNamespace == "porter-operator-system"

registryContainer == "registry"

----------------------------------------------------------------------------
\* Paths: a path is the sequence of its components, "/" first when absolute

pwd == <<"/", "repo">>

IsAbs(p) == Len(p) > 0 /\ p[1] = "/"

Join(a, b) == a \o b

Abs(p) == IF IsAbs(p) THEN p ELSE Join(pwd, p)

currentKubeConfig == Join(pwd, kubeconfig)

\* The values a user may have exported as KUBECONFIG (<<>>: unset)
UserKubeConfigs == { <<>>, kubeconfig, currentKubeConfig, <<"/", "home", "config">> }

\* The file a tool reads and writes for KUBECONFIG = e: relative paths are
\* taken from the working directory, an empty one is the user's default.
KubeconfigFile(e) == IF e = <<>> THEN <<"/", "home", ".kube", "config">> ELSE Abs(e)

----------------------------------------------------------------------------
\* Strings

Contains(s, substr) ==
    \E i \in 0..Len(s) :
        /\ i + Len(substr) <= Len(s)
        /\ SubSeq(s, i + 1, i + Len(substr)) = substr

ParseBool(str) == str \in { <<"1">>, <<"t">>, <<"T">>, <<"TRUE">>, <<"true">>, <<"True">> }

----------------------------------------------------------------------------
\* What the external commands print

KindNetworkId == <<"a", "1">>

BridgeNetworkId == <<"b", "2">>

NetworkEntry(name, id) == <<name, ":">> \o id

\* stdout of `docker network inspect kind -f {{.Id}}`: nothing when there is
\* no such network
DockerNetworkInspectId == IF kindNet THEN KindNetworkId ELSE <<>>

\* stdout of `docker inspect registry -f {{json .NetworkSettings.Networks}}`:
\* nothing when there is no such container
DockerInspectNetworks ==
    IF registry = "absent" THEN <<>>
    ELSE <<"{">> \o NetworkEntry("bridge", BridgeNetworkId)
                 \o (IF linked THEN NetworkEntry("kind", KindNetworkId) ELSE <<>>)
                 \o <<"}">>

\* stdout of `docker container inspect -f {{.State.Running}} registry`
DockerInspectRunning ==
    CASE registry = "running" -> <<"true">>
      [] registry = "stopped" -> <<"false">>
      [] OTHER -> <<>>

\* `docker inspect registry` succeeds for any docker object of that name
DockerInspectOk == registry # "absent" \/ registryImage

NoSuchContainer == <<"No", "such", "container">>

\* The results `docker rm -f registry` can have: (stdout, stderr, failed).
\* With no such container it fails or not, depending on the docker release.
DockerRmResults ==
    IF registry # "absent"
    THEN { [stdout |-> <<registryContainer>>, stderr |-> <<>>, failed |-> FALSE],
           [stdout |-> <<>>, stderr |-> <<"Error", "response", "from", "daemon">>, failed |-> TRUE] }
    ELSE { [stdout |-> <<registryContainer>>, stderr |-> <<>>, failed |-> FALSE],
           [stdout |-> <<>>, stderr |-> <<"Error", ":">> \o NoSuchContainer, failed |-> TRUE] }

----------------------------------------------------------------------------
\* Functions of the magefile that only look

\* getClusterConfig: (contents, ok) of `kind get kubeconfig --name porter`
getClusterConfig == [contents |-> cluster, ok |-> cluster # 0]

isOnDockerNetwork ==
    LET networkId == DockerNetworkInspectId
        networks == DockerInspectNetworks
    IN  Contains(networks, networkId)

\* Faulty variant: a container that exists is taken to be running
isContainerRunningExists == DockerInspectOk

isContainerRunning == ParseBool(DockerInspectRunning)

containerExists == DockerInspectOk

\* removeContainer stops the build on r, a result of `docker rm -f`
removeContainerStops(r) ==
    LET stderr == r.stdout      \* shx.OutputE returns the command's stdout
    IN  r.failed /\ ~Contains(stderr, NoSuchContainer)

----------------------------------------------------------------------------
\* The mage process

Targets == { "EnsureCluster", "CreateKindCluster", "DeleteKindCluster",
             "StartDockerRegistry", "StopDockerRegistry" }

FirstStatement(t) ==
    CASE t = "EnsureCluster" -> "EnsureKubectl"
      [] t = "CreateKindCluster" -> "EnsureKind"
      [] t = "DeleteKindCluster" -> "EnsureKind"
      [] t = "StartDockerRegistry" -> "StartDockerRegistry"
      [] OTHER -> "StopDockerRegistry"

NoLookup == [done |-> FALSE, ok |-> FALSE, contents |-> 0]

Goto(l) ==
    /\ pc' = l
    /\ visited' = visited \cup {l}
    /\ UNCHANGED <<outcome, abortedAt>>

\* The target returns
Return ==
    /\ pc' = "idle"
    /\ outcome' = "ok"
    /\ UNCHANGED <<visited, abortedAt>>

\* mgx.Must(err) with err # nil, and a failed command of `must`: the build
\* stops; the functions deferred so far run while the panic unwinds.
Stop(tmp) ==
    /\ pc' = "idle"
    /\ outcome' = "aborted"
    /\ abortedAt' = pc
    /\ tmpFile' = IF deferred THEN "absent" ELSE tmp
    /\ deferred' = FALSE
    /\ UNCHANGED visited

Must == Stop(tmpFile)

\* A command is run: it inherits KUBECONFIG from the process
Run(cmd, failed) ==
    issued' = Append(issued, [cmd |-> cmd, KUBECONFIG |-> env, failed |-> failed])

\* A step went well, or failed: for no reason of its own when pre holds
Succeeds == spurious' = spurious

Fails(pre) == spurious' = (spurious \/ pre)

TypeOK ==
    /\ cluster \in 0..MaxGen /\ gen \in 0..MaxGen
    /\ kindNet \in BOOLEAN /\ linked \in BOOLEAN /\ registryImage \in BOOLEAN
    /\ registry \in {"absent", "stopped", "running"}
    /\ kindConfig \in [cred : 0..MaxGen, ns : {"", operatorNamespace}]
    /\ tmpFile \in {"absent", "partial", "rendered"}
    /\ env \in UserKubeConfigs
    /\ task \in Targets \cup {"none"}
    /\ outcome \in {"none", "ok", "aborted"}
    /\ deferred \in BOOLEAN /\ spurious \in BOOLEAN /\ advisory \in BOOLEAN
    /\ lookup \in [done : BOOLEAN, ok : BOOLEAN, contents : 0..MaxGen]

Init ==
    /\ cluster \in {0, 1}
    /\ gen = cluster
    /\ kindNet \in BOOLEAN
    /\ cluster # 0 => kindNet
    /\ registry \in {"absent", "stopped", "running"}
    /\ linked \in BOOLEAN
    /\ linked => (kindNet /\ registry # "absent")
    /\ registryImage \in BOOLEAN
    /\ kindConfig \in [cred : {0, cluster}, ns : {"", operatorNamespace}]
    /\ kindConfig.cred = 0 => kindConfig.ns = ""
    /\ tmpFile = "absent"
    /\ env = <<>>
    /\ task = "none"
    /\ pc = "idle"
    /\ outcome = "ok"
    /\ deferred = FALSE
    /\ issued = <<>>
    /\ lookup = NoLookup
    /\ visited = {}
    /\ abortedAt = "none"
    /\ start = [cluster |-> cluster, registry |-> registry, linked |-> linked,
                kindNet |-> kindNet, KUBECONFIG |-> <<>>]
    /\ spurious = FALSE
    /\ advisory = FALSE

\* `mage <target>`: a new process, with the user's environment
Mage(t) ==
    /\ pc = "idle"
    /\ \E u \in UserKubeConfigs :
        /\ env' = u
        /\ start' = [cluster |-> cluster, registry |-> registry, linked |-> linked,
                     kindNet |-> kindNet, KUBECONFIG |-> u]
    /\ task' = t
    /\ pc' = FirstStatement(t)
    /\ visited' = {FirstStatement(t)}
    /\ outcome' = "none"
    /\ abortedAt' = "none"
    /\ deferred' = FALSE
    /\ issued' = <<>>
    /\ lookup' = NoLookup
    /\ spurious' = FALSE
    /\ advisory' = FALSE
    /\ UNCHANGED <<world, kindConfig, tmpFile>>

----------------------------------------------------------------------------
\* What the external commands need in order to work

\* kubectl and flux reach the cluster with the credentials in KUBECONFIG
ReachesCluster ==
    /\ cluster # 0
    /\ KubeconfigFile(env) = currentKubeConfig
    /\ kindConfig.cred = cluster

\* `kubectl config set-context --current` edits the file's current context
HasCurrentContext ==
    KubeconfigFile(env) = currentKubeConfig => kindConfig.cred # 0

CanConnect == kindNet /\ registry # "absent" /\ ~linked

CanDisconnect == kindNet /\ registry # "absent" /\ linked

----------------------------------------------------------------------------
\* EnsureCluster

\* mg.Deps(EnsureKubectl): kubectl is there, or is downloaded, or the
\* download stops the build
EnsureKubectl ==
    /\ pc = "EnsureKubectl"
    /\ \E ok \in BOOLEAN :
        IF ok
        THEN Goto("useCluster") /\ Succeeds /\ UNCHANGED <<tmpFile, deferred>>
        ELSE Must /\ Fails(TRUE)
    /\ UNCHANGED <<world, kindConfig, env, task, issued, lookup, start, advisory>>

\* Faulty variant: the negation of `if !useCluster()` dropped
EnsureClusterAfterInverted(used) ==
    IF used THEN "EnsureKind" ELSE "StartDockerRegistry"

\* if !useCluster() { CreateKindCluster() }; configureCluster(): where
\* EnsureCluster goes once useCluster has returned used
EnsureClusterAfter(used) ==
    IF ~used THEN "EnsureKind" ELSE "StartDockerRegistry"

\* useCluster up to the write of kind.config, or to its return of false
useCluster ==
    /\ pc = "useCluster"
    /\ LET r == getClusterConfig
       IN  /\ Run("kind get kubeconfig", ~r.ok)
           /\ lookup' = [done |-> TRUE, ok |-> r.ok, contents |-> r.contents]
           /\ IF r.ok
              THEN /\ advisory' = (Abs(env) # currentKubeConfig)
                   /\ env' = currentKubeConfig
                   /\ \E written \in BOOLEAN :
                        IF written
                        THEN /\ kindConfig' = [cred |-> r.contents, ns |-> ""]
                             /\ Goto("setClusterNamespace")
                             /\ Succeeds
                             /\ UNCHANGED <<tmpFile, deferred>>
                        ELSE /\ kindConfig' \in {kindConfig, [cred |-> 0, ns |-> ""]}
                             /\ Must
                             /\ Fails(TRUE)
              ELSE /\ Goto(EnsureClusterAfter(FALSE))
                   /\ Succeeds
                   /\ UNCHANGED <<advisory, env, kindConfig, tmpFile, deferred>>
    /\ UNCHANGED <<world, task, start>>

\* must.RunE("kubectl", "config", "set-context", "--current", "--namespace", name)
\* and then on to statement l
setClusterNamespace(l) ==
    /\ \E ok \in BOOLEAN :
        /\ Run("kubectl config set-context", ~(ok /\ HasCurrentContext))
        /\ IF ok /\ HasCurrentContext
           THEN /\ kindConfig' = IF KubeconfigFile(env) = currentKubeConfig
                                 THEN [kindConfig EXCEPT !.ns = operatorNamespace]
                                 ELSE kindConfig
                /\ Goto(l)
                /\ Succeeds
                /\ UNCHANGED <<tmpFile, deferred>>
           ELSE /\ Must
                /\ Fails(HasCurrentContext)
                /\ UNCHANGED kindConfig
    /\ UNCHANGED <<world, env, task, lookup, start, advisory>>

\* the end of useCluster: setClusterNamespace(operatorNamespace); return true
useClusterNamespace ==
    /\ pc = "setClusterNamespace"
    /\ setClusterNamespace(EnsureClusterAfter(TRUE))

----------------------------------------------------------------------------
\* CreateKindCluster and DeleteKindCluster

\* mg.Deps(EnsureKind), the first statement of both
EnsureKind ==
    /\ pc = "EnsureKind"
    /\ \E ok \in BOOLEAN :
        IF ok
        THEN /\ Goto(IF task = "DeleteKindCluster" THEN "kind delete cluster"
                     ELSE "InterfaceAddrs")
             /\ Succeeds
             /\ UNCHANGED <<tmpFile, deferred>>
        ELSE Must /\ Fails(TRUE)
    /\ UNCHANGED <<world, kindConfig, env, task, issued, lookup, start, advisory>>

\* Faulty variant: os.Setenv("KUBECONFIG", ...) left out of CreateKindCluster
CreateKindClusterSetupNoSetenv ==
    /\ pc = "InterfaceAddrs"
    /\ \E r \in {"ok", "no addresses", "no template"} :
        IF r = "ok"
        THEN Goto("WriteFile") /\ Succeeds /\ UNCHANGED <<tmpFile, deferred>>
        ELSE Must /\ Fails(TRUE)
    /\ UNCHANGED <<world, kindConfig, env, task, issued, lookup, start, advisory>>

\* From net.InterfaceAddrs to the parsed template: KUBECONFIG is set once
\* the addresses are known, before hack/kind.config.yaml is read
CreateKindClusterSetup ==
    /\ pc = "InterfaceAddrs"
    /\ \E r \in {"ok", "no addresses", "no template"} :
        CASE r = "no addresses" -> Must /\ Fails(TRUE) /\ UNCHANGED env
          [] r = "no template" -> Must /\ Fails(TRUE) /\ env' = currentKubeConfig
          [] OTHER -> /\ env' = currentKubeConfig
                      /\ Goto("WriteFile")
                      /\ Succeeds
                      /\ UNCHANGED <<tmpFile, deferred>>
    /\ UNCHANGED <<world, kindConfig, task, issued, lookup, start, advisory>>

\* ioutil.WriteFile("kind.config.yaml", ...), mgx.Must, defer os.Remove: a
\* write that fails may have created the file already
CreateKindClusterWriteFile ==
    /\ pc = "WriteFile"
    /\ \E written \in BOOLEAN :
        IF written
        THEN /\ tmpFile' = "rendered"
             /\ deferred' = TRUE
             /\ Goto("kind create cluster")
             /\ Succeeds
        ELSE /\ \E left \in {tmpFile, "partial"} : Stop(left)
             /\ Fails(TRUE)
    /\ UNCHANGED <<world, kindConfig, env, task, issued, lookup, start, advisory>>

CanCreate == cluster = 0 /\ tmpFile = "rendered"

\* Clusters can still be created in this behaviour
MayCreate == gen < MaxGen

\* must.Run("kind", "create", "cluster", ...): kind makes the cluster and the
\* docker network "kind", and puts the credentials in the KUBECONFIG file
KindCreateCluster ==
    /\ pc = "kind create cluster"
    /\ \E ok \in BOOLEAN :
        /\ Run("kind create cluster", ~(ok /\ CanCreate /\ MayCreate))
        /\ IF ok /\ CanCreate /\ MayCreate
           THEN /\ gen' = gen + 1
                /\ cluster' = gen + 1
                /\ kindNet' = TRUE
                /\ kindConfig' = IF KubeconfigFile(env) = currentKubeConfig
                                 THEN [cred |-> gen + 1, ns |-> ""]
                                 ELSE kindConfig
                /\ Goto("docker network connect")
                /\ Succeeds
                /\ UNCHANGED <<tmpFile, deferred>>
           ELSE /\ Must
                /\ Fails(CanCreate)
                /\ UNCHANGED <<gen, cluster, kindNet, kindConfig>>
    /\ UNCHANGED <<registry, linked, registryImage, env, task, lookup, start, advisory>>

\* must.Run("docker", "network", "connect", "kind", registryContainer)
DockerNetworkConnect ==
    /\ pc = "docker network connect"
    /\ \E ok \in BOOLEAN :
        /\ Run("docker network connect", ~(ok /\ CanConnect))
        /\ IF ok /\ CanConnect
           THEN /\ linked' = TRUE
                /\ Goto("kubectl apply")
                /\ Succeeds
                /\ UNCHANGED <<tmpFile, deferred>>
           ELSE /\ Must
                /\ Fails(CanConnect)
                /\ UNCHANGED linked
    /\ UNCHANGED <<cluster, gen, kindNet, registry, registryImage, kindConfig,
                   env, task, lookup, start, advisory>>

\* The end of CreateKindCluster: the deferred os.Remove runs, and
\* EnsureCluster goes on to configureCluster
CreateKindClusterReturns ==
    /\ tmpFile' = IF deferred THEN "absent" ELSE tmpFile
    /\ deferred' = FALSE
    /\ IF task = "EnsureCluster" THEN Goto("StartDockerRegistry") ELSE Return

\* Faulty variant: kubectl() builds the command without StopOnError
KubectlApplyLenient ==
    /\ pc = "kubectl apply"
    /\ \E ok \in BOOLEAN :
        /\ Run("kubectl apply", ~(ok /\ ReachesCluster))
        /\ CreateKindClusterReturns
        /\ spurious' = (spurious \/ (~ok /\ ReachesCluster))
    /\ UNCHANGED <<world, kindConfig, env, task, lookup, start, advisory>>

\* kubectl("apply", "-f", "hack/local-registry.yaml").Run(): kubectl() builds
\* the command with must
KubectlApply ==
    /\ pc = "kubectl apply"
    /\ \E ok \in BOOLEAN :
        /\ Run("kubectl apply", ~(ok /\ ReachesCluster))
        /\ IF ok /\ ReachesCluster
           THEN CreateKindClusterReturns /\ Succeeds
           ELSE Must /\ Fails(ReachesCluster)
    /\ UNCHANGED <<world, kindConfig, env, task, lookup, start, advisory>>

\* Faulty variant: `kind delete cluster` run without StopOnError
KindDeleteClusterLenient ==
    /\ pc = "kind delete cluster"
    /\ \E ok \in BOOLEAN :
        /\ Run("kind delete cluster", ~ok)
        /\ cluster' = IF ok THEN 0 ELSE cluster
        /\ kindConfig' = IF ok /\ KubeconfigFile(env) = currentKubeConfig
                         THEN [cred |-> 0, ns |-> ""]
                         ELSE kindConfig
        /\ spurious' = (spurious \/ ~ok)
    /\ Goto("isOnDockerNetwork")
    /\ UNCHANGED <<gen, kindNet, registry, linked, registryImage, env, task,
                   lookup, start, advisory, tmpFile, deferred>>

\* must.RunE("kind", "delete", "cluster", ...): no cluster is no error for
\* kind; it also takes the cluster out of the KUBECONFIG file
KindDeleteCluster ==
    /\ pc = "kind delete cluster"
    /\ \E ok \in BOOLEAN :
        /\ Run("kind delete cluster", ~(ok))
        /\ IF ok
           THEN /\ cluster' = 0
                /\ kindConfig' = IF KubeconfigFile(env) = currentKubeConfig
                                 THEN [cred |-> 0, ns |-> ""]
                                 ELSE kindConfig
                /\ Goto("isOnDockerNetwork")
                /\ Succeeds
                /\ UNCHANGED <<tmpFile, deferred>>
           ELSE /\ Must
                /\ Fails(TRUE)
                /\ UNCHANGED <<cluster, kindConfig>>
    /\ UNCHANGED <<gen, kindNet, registry, linked, registryImage, env, task,
                   lookup, start, advisory>>

\* if isOnDockerNetwork(registryContainer, "kind") { must.RunE("docker",
\* "network", "disconnect", "kind", registryContainer) }
DeleteKindClusterDisconnect ==
    /\ pc = "isOnDockerNetwork"
    /\ IF isOnDockerNetwork
       THEN \E ok \in BOOLEAN :
                /\ Run("docker network disconnect", ~(ok /\ CanDisconnect))
                /\ IF ok /\ CanDisconnect
                   THEN /\ linked' = FALSE
                        /\ Return
                        /\ Succeeds
                        /\ UNCHANGED <<tmpFile, deferred>>
                   ELSE /\ Must
                        /\ Fails(CanDisconnect)
                        /\ UNCHANGED linked
       ELSE /\ Return
            /\ Succeeds
            /\ UNCHANGED <<linked, issued, tmpFile, deferred>>
    /\ UNCHANGED <<cluster, gen, kindNet, registry, registryImage, kindConfig,
                   env, task, lookup, start, advisory>>

----------------------------------------------------------------------------
\* The registry, and configureCluster

\* StartDockerRegistry returns: to configureCluster, or the target is done
StartDockerRegistryReturns ==
    IF task = "EnsureCluster" THEN Goto("configureCluster") ELSE Return

\* if isContainerRunning(registryContainer) { return }
StartDockerRegistry ==
    /\ pc = "StartDockerRegistry"
    /\ IF isContainerRunning
       THEN StartDockerRegistryReturns
       ELSE Goto("StopDockerRegistry")
    /\ UNCHANGED <<world, kindConfig, tmpFile, env, task, deferred, issued,
                   lookup, start, spurious, advisory>>

\* StopDockerRegistry returns: to StartDockerRegistry, or the target is done
StopDockerRegistryReturns ==
    IF task = "StopDockerRegistry" THEN Return ELSE Goto("docker run")

\* StopDockerRegistry, with removeContainer: removing the container takes
\* its network attachments with it
StopDockerRegistry ==
    /\ pc = "StopDockerRegistry"
    /\ IF containerExists
       THEN \E r \in DockerRmResults :
                /\ issued' = Append(issued, [cmd |-> "docker rm", KUBECONFIG |-> env,
                                             failed |-> r.failed, stderr |-> r.stderr])
                /\ IF r.failed
                   THEN UNCHANGED <<registry, linked>>
                   ELSE registry' = "absent" /\ linked' = FALSE
                /\ IF removeContainerStops(r)
                   THEN Must /\ Fails(registry # "absent")
                   ELSE /\ StopDockerRegistryReturns
                        /\ Succeeds
                        /\ UNCHANGED <<tmpFile, deferred>>
       ELSE /\ StopDockerRegistryReturns
            /\ Succeeds
            /\ UNCHANGED <<registry, linked, issued, tmpFile, deferred>>
    /\ UNCHANGED <<cluster, gen, kindNet, registryImage, kindConfig, env, task,
                   lookup, start, advisory>>

\* must.RunE("docker", "run", "-d", "-p", "5000:5000", "--name", ...): the
\* name must be free
DockerRun ==
    /\ pc = "docker run"
    /\ \E ok \in BOOLEAN :
        /\ Run("docker run", ~(ok /\ registry = "absent"))
        /\ IF ok /\ registry = "absent"
           THEN /\ registry' = "running"
                /\ StartDockerRegistryReturns
                /\ Succeeds
                /\ UNCHANGED <<tmpFile, deferred>>
           ELSE /\ Must
                /\ Fails(registry = "absent")
                /\ UNCHANGED registry
    /\ UNCHANGED <<cluster, gen, kindNet, linked, registryImage, kindConfig,
                   env, task, lookup, start, advisory>>

\* configureCluster after its mg.Deps: setClusterNamespace(operatorNamespace)
configureCluster ==
    /\ pc = "configureCluster"
    /\ setClusterNamespace("flux install")

\* must.RunV("flux", "install")
FluxInstall ==
    /\ pc = "flux install"
    /\ \E ok \in BOOLEAN :
        /\ Run("flux install", ~(ok /\ ReachesCluster))
        /\ IF ok /\ ReachesCluster
           THEN Return /\ Succeeds /\ UNCHANGED <<tmpFile, deferred>>
           ELSE Must /\ Fails(ReachesCluster)
    /\ UNCHANGED <<world, kindConfig, env, task, lookup, start, advisory>>

----------------------------------------------------------------------------

Next ==
    \/ \E t \in Targets : Mage(t)
    \/ EnsureKubectl
    \/ useCluster
    \/ useClusterNamespace
    \/ EnsureKind
    \/ CreateKindClusterSetup
    \/ CreateKindClusterWriteFile
    \/ KindCreateCluster
    \/ DockerNetworkConnect
    \/ KubectlApply
    \/ KindDeleteCluster
    \/ DeleteKindClusterDisconnect
    \/ StartDockerRegistry
    \/ StopDockerRegistry
    \/ DockerRun
    \/ configureCluster
    \/ FluxInstall

Spec == Init /\ [][Next]_vars

----------------------------------------------------------------------------
\* Properties

Ended == pc = "idle" /\ task # "none"

Commands == 1..Len(issued)

Ran(cmd) == \E i \in Commands : issued[i].cmd = cmd

Count(cmd) == Cardinality({i \in Commands : issued[i].cmd = cmd})

\* The statements of CreateKindCluster
CreateStatements ==
    {"InterfaceAddrs", "WriteFile", "kind create cluster",
     "docker network connect", "kubectl apply"}

\* CreateKindCluster was called by this process
CreateCalled == task # "DeleteKindCluster" /\ "EnsureKind" \in visited

\* C1: in a run of EnsureCluster, `kind create cluster` is run only after
\* the credential lookup failed; after a failed lookup the run is in
\* CreateKindCluster and never in the reuse branch of useCluster; after a
\* successful lookup CreateKindCluster is not called and kind create is
\* not run.
C1_CreateIffLookupFailed ==
    task = "EnsureCluster" =>
        /\ Ran("kind create cluster") => lookup.done /\ ~lookup.ok
        /\ (lookup.done /\ ~lookup.ok) =>
              /\ CreateCalled
              /\ "setClusterNamespace" \notin visited
              /\ abortedAt # "useCluster"
              /\ ~advisory
        /\ (lookup.done /\ lookup.ok) =>
              /\ ~CreateCalled
              /\ ~Ran("kind create cluster")
              /\ visited \cap CreateStatements = {}

C1_Witness ==
    /\ task = "EnsureCluster"
    /\ lookup.done /\ ~lookup.ok
    /\ Ran("kind create cluster")
    /\ Ended

\* C2: a run of EnsureCluster that starts with no cluster, whatever the
\* registry container is (absent, stopped, running) and not yet attached to
\* the kind network, and in which no step fails while what it needs is
\* there, returns normally with the cluster created, its credentials in
\* kind.config and the namespace set to porter-operator-system.
C2_CreatesFromAbsent ==
    (/\ task = "EnsureCluster"
     /\ Ended
     /\ start.cluster = 0
     /\ ~start.linked
     /\ ~spurious)
    => /\ outcome = "ok"
       /\ cluster # 0
       /\ kindConfig = [cred |-> cluster, ns |-> operatorNamespace]

\* C3: after a run of EnsureCluster, CreateKindCluster or DeleteKindCluster
\* that returned normally, if the cluster exists then kind.config holds its
\* credentials, and on the reuse path these are the ones the lookup fetched.
C3_KubeconfigDescribesCluster ==
    (/\ task \in {"EnsureCluster", "CreateKindCluster", "DeleteKindCluster"}
     /\ Ended
     /\ outcome = "ok"
     /\ cluster # 0)
    => /\ cluster \in 1..gen
       /\ kindConfig.cred = cluster
       /\ lookup.ok => kindConfig.cred = lookup.contents

C3_Witness ==
    /\ task = "EnsureCluster"
    /\ Ended
    /\ outcome = "ok"
    /\ lookup.ok
    /\ cluster > 1
    /\ start.KUBECONFIG # currentKubeConfig

\* C4: once CreateKindCluster has ended, by returning or by stopping the
\* build at any statement, kind.config.yaml does not exist.
C4_TmpFileRemoved ==
    (CreateCalled /\ pc \notin CreateStatements \cup {"EnsureKind"})
    => tmpFile = "absent"

\* C5: StopDockerRegistry does not stop the build when there is no container
\* "registry"; when it returns there is no such container; a failed
\* `docker rm -f` that says "No such container" counts as success, any other
\* failure of it stops the build.
C5_StopDockerRegistry ==
    (task = "StopDockerRegistry" /\ Ended) =>
        /\ start.registry = "absent" => outcome = "ok"
        /\ outcome = "ok" => registry = "absent"
        /\ \A i \in Commands :
              (issued[i].cmd = "docker rm" /\ issued[i].failed) =>
                  IF Contains(issued[i].stderr, NoSuchContainer)
                  THEN outcome = "ok"
                  ELSE outcome = "aborted"

\* The network's identifier is among the container's attached networks
Attached == kindNet /\ registry # "absent" /\ linked

\* C6: isOnDockerNetwork("registry", "kind") is true only when the network's
\* identifier is among the container's networks, whether or not the network
\* and the container exist; it is true after a connect that worked and false
\* after a disconnect that worked.
C6_IsOnDockerNetwork ==
    /\ (pc = "isOnDockerNetwork" /\ isOnDockerNetwork) => Attached
    /\ pc = "kubectl apply" => isOnDockerNetwork
    /\ (task = "DeleteKindCluster" /\ Ended /\ outcome = "ok"
        /\ Ran("docker network disconnect")) => ~isOnDockerNetwork

\* C7: DeleteKindCluster runs `docker network disconnect kind registry` only
\* when the registry container is attached to the kind network.
C7_DisconnectOnlyWhenAttached ==
    (task = "DeleteKindCluster" /\ Ran("docker network disconnect"))
    => (start.kindNet /\ start.registry # "absent" /\ start.linked)

\* StartDockerRegistry has returned in this process
StartDockerRegistryReturned ==
    \/ task = "StartDockerRegistry" /\ Ended /\ outcome = "ok"
    \/ task = "EnsureCluster" /\ "configureCluster" \in visited

\* C8: StartDockerRegistry with the registry running runs no docker run and
\* no docker rm, returns and leaves the container as it is; with the
\* registry absent or stopped, when it returns it has removed the container
\* that was there and has run docker run exactly once, and the registry is
\* running.
C8_StartDockerRegistry ==
    /\ (task = "StartDockerRegistry" /\ Ended /\ start.registry = "running") =>
          /\ outcome = "ok"
          /\ issued = <<>>
          /\ registry = "running"
          /\ linked = start.linked
    /\ (task \in {"StartDockerRegistry", "EnsureCluster"}
        /\ start.registry = "running") =>
          /\ ~Ran("docker run")
          /\ ~Ran("docker rm")
          /\ registry = "running"
    /\ (StartDockerRegistryReturned /\ start.registry # "running") =>
          /\ Count("docker run") = 1
          /\ registry = "running"
          /\ start.registry = "stopped" => Count("docker rm") = 1

C8_Witness ==
    /\ task = "StartDockerRegistry"
    /\ Ended
    /\ outcome = "ok"
    /\ start.registry = "running"
    /\ registry = "running"

\* C9 as stated: a failed `kind create cluster` stops the build with nothing
\* run after it, and a failed `kubectl apply` does not stop the build.
C9_ApplyLenient ==
    \A i \in Commands :
        /\ (issued[i].cmd = "kind create cluster" /\ issued[i].failed) =>
              (i = Len(issued) /\ outcome = "aborted")
        /\ (issued[i].cmd = "kubectl apply" /\ issued[i].failed) =>
              abortedAt # "kubectl apply"

\* C9 amended: in CreateKindCluster a failed `kind create cluster` and a
\* failed `kubectl apply` both stop the build: nothing is run after them,
\* CreateKindCluster does not return and configureCluster is not reached.
C9_CreateAndApplyStrict ==
    \A i \in Commands :
        (issued[i].cmd \in {"kind create cluster", "kubectl apply"}
         /\ issued[i].failed) =>
            /\ i = Len(issued)
            /\ outcome = "aborted"
            /\ abortedAt = issued[i].cmd
            /\ "StartDockerRegistry" \notin visited

C9_Witness ==
    /\ task = "EnsureCluster"
    /\ Len(issued) > 0
    /\ issued[Len(issued)].cmd = "kubectl apply"
    /\ issued[Len(issued)].failed
    /\ Ran("docker network connect")

KubeconfigCommands ==
    {"kind create cluster", "kubectl apply", "kubectl config set-context",
     "flux install"}

\* C10: in a run of EnsureCluster, whatever KUBECONFIG the user has, every
\* kind create, kubectl and flux command is run with KUBECONFIG set to
\* <pwd>/kind.config; the advisory is printed exactly when an existing
\* cluster is reused and the user's value is another path, and useCluster
\* then stops the build only when the write of kind.config fails.
C10_KubeconfigIsCanonical ==
    task = "EnsureCluster" =>
        /\ \A i \in Commands :
              issued[i].cmd \in KubeconfigCommands =>
                  issued[i].KUBECONFIG = currentKubeConfig
        /\ advisory = (lookup.ok /\ Abs(start.KUBECONFIG) # currentKubeConfig)
        /\ abortedAt = "useCluster" => spurious
        /\ (advisory /\ abortedAt # "useCluster") =>
              "setClusterNamespace" \in visited

C10_Witness ==
    /\ task = "EnsureCluster"
    /\ start.KUBECONFIG = <<"/", "home", "config">>
    /\ ~lookup.ok
    /\ Ran("kind create cluster")
    /\ Ran("kubectl apply")
    /\ Ran("flux install")
    /\ outcome = "ok"

====
